---- MODULE Spec2Model ----
(***************************************************************************)
(* A model of the libssl usage demos ddd-03-fd-blocking (demo 3),          *)
(* ddd-04-fd-nonblocking (demo 4, Descriptor Binding) and the memory-BIO   *)
(* demo that follows it in the same file (demo 5, Memory Binding).         *)
(*                                                                         *)
(* The TLS engine (libssl) and the operating system are the environment:   *)
(* every result they can hand back is an input chosen with \E.  What the   *)
(* demos' own functions do with such a result is translated from their     *)
(* code.                                                                   *)
(*                                                                         *)
(* Spec      any caller of the functions of demos 3, 4 and 5, in any order *)
(* MainSpec  the main of demos 4 and 5, statement by statement             *)
(* PumpSpec  demo 5's pump, call by call, from every state of a connection *)
(* LiveSpec  demo 5's main with an engine, a transport and a peer that do  *)
(*           their part, and fairness                                      *)
(* EndSpec   demo 5's main with a transport that reaches its end, and      *)
(*           fairness                                                      *)
(***************************************************************************)
EXTENDS Integers, Sequences, FiniteSets, TLC

\* ------------------------------------------------------------------ bounds
\* Largest buf_len a caller passes to tx/rx.
MaxLen == 2
\* Capacity, in bytes, of each direction of the BIO pair.
Cap == 1
\* Bytes the engine emits, and bytes the peer sends, over a whole run.
MaxStream == 1
\* main: sizeof(tx_msg) - 1 and sizeof(rx_msg), scaled down (42 and 2048 in
\* the program).
MsgLen == 2
RxLen == 2
\* main: the size of each direction of the BIO pair, the bytes the engine
\* emits over a run of main, and the bytes the peer sends.
PairSize == 3
RunLen == 3
PeerLen == 2
\* sizeof(buf), pump's scratch buffer, scaled down with the BIO pair (2048
\* bytes against the pair's default of 17408 in the program): smaller than
\* the pair, larger than one byte.
BufLen == 2

VARIABLES
    demo,   \* which program runs: 3, 4 or 5
    pc,     \* where the caller is in the connection's life cycle
    h,      \* the heap: allocation and release counts, ownership links, the fd
    conn,   \* the APP_CONN record
    eng,    \* the TLS engine: handshake state, encrypted bytes emitted so far
            \* (out) and the number it emits over the run (len)
    net,    \* the BIO pair seen from net_bio: out (to the network), in (from
            \* it), and the size of each direction's buffer
    wire,   \* the real transport: bytes written to fd, bytes read from it,
            \* errno, and the number of bytes the peer sends over the run (len)
    last,   \* the most recent call and what it returned
    sys,    \* what a pump call did on fd and on the BIO pair, where the
            \* specification keeps that record
    drv     \* main's locals: where it is, its buffer positions and lengths

vars == <<demo, pc, h, conn, eng, net, wire, last, sys, drv>>

\* ------------------------------------------------------------------- heap
Resources == {"ctx", "conn", "ssl", "fd_bio", "internal_bio", "net_bio", "ssl_bio"}

\* Everything a connection is made of (the SSL_CTX belongs to the caller).
ConnResources == Resources \ {"ctx"}

NoHeap ==
    [alloc   |-> [r \in Resources |-> 0],
     rel     |-> [r \in Resources |-> 0],
     rbio    |-> "NULL",      \* the BIO the SSL object reads and writes
     bio_ssl |-> FALSE,       \* ssl_bio holds the SSL object, BIO_CLOSE
     fd_close |-> FALSE,      \* the socket BIO closes fd when released
     fd_open |-> TRUE]        \* the caller's socket

\* calloc, SSL_new, BIO_new, SSL_CTX_new: one more allocation of r.
alloc(hp, r) == [hp EXCEPT !.alloc[r] = @ + 1]

\* free, and the last step of every *_free: one more release of r.
free(hp, r) == [hp EXCEPT !.rel[r] = @ + 1]

\* SSL_free releases the SSL object and the BIO attached to it.  The BIO made
\* by SSL_set_fd is BIO_NOCLOSE: releasing it leaves the descriptor open.
SSL_free(hp) ==
    LET h1 == free(hp, "ssl")
    IN  IF hp.rbio = "NULL" THEN h1
        ELSE [free(h1, hp.rbio) EXCEPT
                !.rbio = "NULL",
                !.fd_open = IF hp.rbio = "fd_bio" /\ hp.fd_close THEN FALSE ELSE @]

\* SSL_set_fd wraps fd in a socket BIO (BIO_NOCLOSE) and attaches it.
SSL_set_fd(hp) ==
    [alloc(hp, "fd_bio") EXCEPT !.rbio = "fd_bio", !.fd_close = FALSE]

\* BIO_new_bio_pair makes both halves; SSL_set_bio hands internal_bio to ssl.
BIO_new_bio_pair(hp) == alloc(alloc(hp, "internal_bio"), "net_bio")

SSL_set_bio(hp) == [hp EXCEPT !.rbio = "internal_bio"]

\* BIO_set_ssl(ssl_bio, ssl, BIO_CLOSE): ssl_bio now owns the SSL object.
BIO_set_ssl(hp) == [hp EXCEPT !.bio_ssl = TRUE]

\* BIO_free releases one BIO.
BIO_free(hp, b) == free(hp, b)

\* BIO_free_all releases a chain: an SSL BIO takes the SSL object it owns
\* (and that object's BIO) with it.
BIO_free_all(hp, b) ==
    LET h1 == free(hp, b)
    IN  IF b = "ssl_bio" /\ hp.bio_ssl
        THEN [SSL_free(h1) EXCEPT !.bio_ssl = FALSE]
        ELSE h1

\* ------------------------------------------------------- create_ssl_ctx
CtxSteps == {"SSL_CTX_new", "SSL_CTX_set_default_verify_paths"}

\* fail names the library call that fails, "none" when all succeed.
create_ssl_ctx(hp, fail) ==
    IF fail = "SSL_CTX_new" THEN [h |-> hp, ret |-> "NULL"]
    ELSE LET h1 == alloc(hp, "ctx")
         IN  IF fail = "SSL_CTX_set_default_verify_paths"
             THEN [h |-> free(h1, "ctx"), ret |-> "NULL"]
             ELSE [h |-> h1, ret |-> "ctx"]

\* ------------------------------------------------------------- new_conn
\* The APP_CONN record as calloc leaves it.
ZeroConn == [rx_need_tx |-> FALSE, tx_need_rx |-> FALSE]

NewConnSteps3 ==
    {"SSL_new", "SSL_set_fd", "SSL_set1_host", "SSL_set_tlsext_host_name",
     "BIO_new", "BIO_set_ssl"}

NewConnSteps4 ==
    {"calloc", "SSL_new", "SSL_set_fd", "SSL_set1_host",
     "SSL_set_tlsext_host_name"}

NewConnSteps5 ==
    {"calloc", "SSL_new", "BIO_new_bio_pair", "SSL_set1_host",
     "SSL_set_tlsext_host_name", "BIO_new", "BIO_set_ssl"}

\* Demo 3 (blocking): the connection is the SSL BIO itself.
new_conn3(hp, fail) ==
    IF fail = "SSL_new" THEN [h |-> hp, ret |-> "NULL"]
    ELSE LET h1 == alloc(hp, "ssl") IN
    IF fail = "SSL_set_fd" THEN [h |-> SSL_free(h1), ret |-> "NULL"]
    ELSE LET h2 == SSL_set_fd(h1) IN
    IF fail = "SSL_set1_host" THEN [h |-> SSL_free(h2), ret |-> "NULL"]
    ELSE
    IF fail = "SSL_set_tlsext_host_name" THEN [h |-> SSL_free(h2), ret |-> "NULL"]
    ELSE
    IF fail = "BIO_new" THEN [h |-> SSL_free(h2), ret |-> "NULL"]
    ELSE LET h3 == alloc(h2, "ssl_bio") IN
    IF fail = "BIO_set_ssl"
    THEN [h |-> BIO_free(SSL_free(h3), "ssl_bio"), ret |-> "NULL"]
    ELSE [h |-> BIO_set_ssl(h3), ret |-> "conn"]

\* Faulty variant of new_conn4: the SSL_set1_host failure path forgets
\* free(conn).
new_conn4_leak(hp, fail) ==
    IF fail = "calloc" THEN [h |-> hp, ret |-> "NULL"]
    ELSE LET h1 == alloc(hp, "conn") IN
    IF fail = "SSL_new" THEN [h |-> free(h1, "conn"), ret |-> "NULL"]
    ELSE LET h2 == alloc(h1, "ssl") IN
    IF fail = "SSL_set_fd"
    THEN [h |-> free(SSL_free(h2), "conn"), ret |-> "NULL"]
    ELSE LET h3 == SSL_set_fd(h2) IN
    IF fail = "SSL_set1_host"
    THEN [h |-> SSL_free(h3), ret |-> "NULL"]
    ELSE
    IF fail = "SSL_set_tlsext_host_name"
    THEN [h |-> free(SSL_free(h3), "conn"), ret |-> "NULL"]
    ELSE [h |-> h3, ret |-> "conn"]

\* Demo 4 (Descriptor Binding).
new_conn4(hp, fail) ==
    IF fail = "calloc" THEN [h |-> hp, ret |-> "NULL"]
    ELSE LET h1 == alloc(hp, "conn") IN
    IF fail = "SSL_new" THEN [h |-> free(h1, "conn"), ret |-> "NULL"]
    ELSE LET h2 == alloc(h1, "ssl") IN
    IF fail = "SSL_set_fd"
    THEN [h |-> free(SSL_free(h2), "conn"), ret |-> "NULL"]
    ELSE LET h3 == SSL_set_fd(h2) IN
    IF fail = "SSL_set1_host"
    THEN [h |-> free(SSL_free(h3), "conn"), ret |-> "NULL"]
    ELSE
    IF fail = "SSL_set_tlsext_host_name"
    THEN [h |-> free(SSL_free(h3), "conn"), ret |-> "NULL"]
    ELSE [h |-> h3, ret |-> "conn"]

\* Demo 5 (Memory Binding).  net_bio is held by nothing but the local
\* variable until conn->net_bio is set on the last line.
new_conn5(hp, fail) ==
    IF fail = "calloc" THEN [h |-> hp, ret |-> "NULL"]
    ELSE LET h1 == alloc(hp, "conn") IN
    IF fail = "SSL_new" THEN [h |-> free(h1, "conn"), ret |-> "NULL"]
    ELSE LET h2 == alloc(h1, "ssl") IN
    IF fail = "BIO_new_bio_pair"
    THEN [h |-> free(SSL_free(h2), "conn"), ret |-> "NULL"]
    ELSE LET h3 == SSL_set_bio(BIO_new_bio_pair(h2)) IN
    IF fail = "SSL_set1_host"
    THEN [h |-> free(SSL_free(h3), "conn"), ret |-> "NULL"]
    ELSE
    IF fail = "SSL_set_tlsext_host_name"
    THEN [h |-> free(SSL_free(h3), "conn"), ret |-> "NULL"]
    ELSE
    IF fail = "BIO_new"
    THEN [h |-> free(SSL_free(h3), "conn"), ret |-> "NULL"]
    ELSE LET h4 == alloc(h3, "ssl_bio") IN
    IF fail = "BIO_set_ssl"
    THEN [h |-> BIO_free(SSL_free(h4), "ssl_bio"), ret |-> "NULL"]
    ELSE [h |-> BIO_set_ssl(h4), ret |-> "conn"]

\* ------------------------------------------------------------ the engine
WouldBlockCause ==
    {"SSL_ERROR_WANT_READ", "SSL_ERROR_WANT_WRITE", "SSL_ERROR_WANT_CONNECT"}

FatalError == {"SSL_ERROR_SSL", "SSL_ERROR_SYSCALL"}

PeerClosed == "SSL_ERROR_ZERO_RETURN"

Min(a, b) == IF a < b THEN a ELSE b

\* What SSL_write / BIO_write(ssl_bio) can hand back for a request of len
\* bytes, with the engine state that follows: [l, rc, st].  l is the call's
\* result and rc what SSL_get_error then reports.
attempt_write(e, len) ==
    IF e.st = "failed"
    THEN {[l |-> l, rc |-> rc, st |-> "failed"] : l \in {-1, 0}, rc \in FatalError}
    ELSE    {[l |-> l, rc |-> "SSL_ERROR_NONE", st |-> IF e.st = "closed" THEN "closed" ELSE "established"] :
                l \in 1..len}
       \cup {[l |-> -1, rc |-> rc, st |-> st] :
                rc \in WouldBlockCause,
                st \in {e.st} \cup (IF e.st = "handshake" THEN {"established"} ELSE {})}
       \cup {[l |-> l, rc |-> rc, st |-> "failed"] : l \in {-1, 0}, rc \in FatalError}

\* What SSL_read / BIO_read(ssl_bio) can hand back: as for a write, and the
\* peer's orderly close (0 bytes, SSL_ERROR_ZERO_RETURN).
attempt_read(e, len) ==
    IF e.st = "failed"
    THEN {[l |-> l, rc |-> rc, st |-> "failed"] : l \in {-1, 0}, rc \in FatalError}
    ELSE IF e.st = "closed"
    THEN {[l |-> 0, rc |-> PeerClosed, st |-> "closed"]}
    ELSE    {[l |-> l, rc |-> "SSL_ERROR_NONE", st |-> "established"] : l \in 1..len}
       \cup {[l |-> -1, rc |-> rc, st |-> st] :
                rc \in WouldBlockCause,
                st \in {e.st} \cup (IF e.st = "handshake" THEN {"established"} ELSE {})}
       \cup {[l |-> l, rc |-> rc, st |-> "failed"] : l \in {-1, 0}, rc \in FatalError}
       \cup (IF e.st = "established"
             THEN {[l |-> 0, rc |-> PeerClosed, st |-> "closed"]}
             ELSE {})

\* Encrypted bytes are named by their place in the stream that carries them:
\* bytes a+1 .. a+k.
Bytes(a, k) == [i \in 1..k |-> a + i]

\* ---------------------------------------------------------------- tx, rx
\* Demo 3: tx and rx hand the BIO's result straight back.
tx3(c, l, rc) == [conn |-> c, ret |-> l]

rx3(c, l, rc) == [conn |-> c, ret |-> l]

\* Faulty variant of tx4: the hint is not cleared on entry.
tx4_stale(c, l, rc) ==
    IF l <= 0
    THEN CASE rc = "SSL_ERROR_WANT_READ" ->
                [conn |-> [c EXCEPT !.tx_need_rx = TRUE], ret |-> -2]
           [] rc \in {"SSL_ERROR_WANT_CONNECT", "SSL_ERROR_WANT_WRITE"} ->
                [conn |-> c, ret |-> -2]
           [] OTHER -> [conn |-> c, ret |-> -1]
    ELSE [conn |-> [c EXCEPT !.tx_need_rx = FALSE], ret |-> l]

\* Demo 4 tx: l is SSL_write's result, rc what SSL_get_error reports for it.
\* The hint is cleared before the engine is called.
tx4(c, l, rc) ==
    LET c0 == [c EXCEPT !.tx_need_rx = FALSE]
    IN  IF l <= 0
        THEN CASE rc = "SSL_ERROR_WANT_READ" ->
                    [conn |-> [c0 EXCEPT !.tx_need_rx = TRUE], ret |-> -2]
               [] rc \in {"SSL_ERROR_WANT_CONNECT", "SSL_ERROR_WANT_WRITE"} ->
                    [conn |-> c0, ret |-> -2]
               [] OTHER -> [conn |-> c0, ret |-> -1]
        ELSE [conn |-> c0, ret |-> l]

\* Demo 4 rx: the switch has no case for SSL_ERROR_WANT_CONNECT.
rx4(c, l, rc) ==
    LET c0 == [c EXCEPT !.rx_need_tx = FALSE]
    IN  IF l <= 0
        THEN CASE rc = "SSL_ERROR_WANT_WRITE" ->
                    [conn |-> [c0 EXCEPT !.rx_need_tx = TRUE], ret |-> -2]
               [] rc = "SSL_ERROR_WANT_READ" -> [conn |-> c0, ret |-> -2]
               [] OTHER -> [conn |-> c0, ret |-> -1]
        ELSE [conn |-> c0, ret |-> l]

\* Faulty variant of tx5: the test is l < 0, so a result of 0 is handed back.
tx5_zero(c, l, rc) ==
    IF l < 0
    THEN CASE rc = "SSL_ERROR_WANT_READ" ->
                [conn |-> [c EXCEPT !.tx_need_rx = TRUE], ret |-> -2]
           [] rc \in {"SSL_ERROR_WANT_CONNECT", "SSL_ERROR_WANT_WRITE"} ->
                [conn |-> c, ret |-> -2]
           [] OTHER -> [conn |-> c, ret |-> -1]
    ELSE [conn |-> [c EXCEPT !.tx_need_rx = FALSE], ret |-> l]

\* Demo 5 tx: the hint is cleared only in the else branch, after progress.
tx5(c, l, rc) ==
    IF l <= 0
    THEN CASE rc = "SSL_ERROR_WANT_READ" ->
                [conn |-> [c EXCEPT !.tx_need_rx = TRUE], ret |-> -2]
           [] rc \in {"SSL_ERROR_WANT_CONNECT", "SSL_ERROR_WANT_WRITE"} ->
                [conn |-> c, ret |-> -2]
           [] OTHER -> [conn |-> c, ret |-> -1]
    ELSE [conn |-> [c EXCEPT !.tx_need_rx = FALSE], ret |-> l]

\* Demo 5 rx.
rx5(c, l, rc) ==
    IF l <= 0
    THEN CASE rc = "SSL_ERROR_WANT_WRITE" ->
                [conn |-> [c EXCEPT !.rx_need_tx = TRUE], ret |-> -2]
           [] rc = "SSL_ERROR_WANT_READ" -> [conn |-> c, ret |-> -2]
           [] OTHER -> [conn |-> c, ret |-> -1]
    ELSE [conn |-> [c EXCEPT !.rx_need_tx = FALSE], ret |-> l]

tx(d, c, l, rc) ==
    CASE d = 3 -> tx3(c, l, rc) [] d = 4 -> tx4(c, l, rc) [] d = 5 -> tx5(c, l, rc)

rx(d, c, l, rc) ==
    CASE d = 3 -> rx3(c, l, rc) [] d = 4 -> rx4(c, l, rc) [] d = 5 -> rx5(c, l, rc)

\* ------------------------------------------------------ readiness queries
\* An event set is the set of its bits; | is union.
\* Faulty variant of get_conn_pending_tx4: the query consumes the hint.
get_conn_pending_tx4_consume(c) ==
    [conn |-> [c EXCEPT !.tx_need_rx = FALSE],
     ret  |-> (IF c.tx_need_rx THEN {"POLLIN"} ELSE {}) \cup {"POLLOUT"} \cup {"POLLERR"}]

get_conn_pending_tx4(c) ==
    [conn |-> c,
     ret  |-> (IF c.tx_need_rx THEN {"POLLIN"} ELSE {}) \cup {"POLLOUT"} \cup {"POLLERR"}]

get_conn_pending_rx4(c) ==
    [conn |-> c,
     ret  |-> (IF c.rx_need_tx THEN {"POLLOUT"} ELSE {}) \cup {"POLLIN"} \cup {"POLLERR"}]

\* Faulty variant of get_conn_pending_tx5: the hint is ignored.
get_conn_pending_tx5_nohint(c) ==
    [conn |-> c, ret |-> {"POLLOUT"} \cup {"POLLERR"}]

get_conn_pending_tx5(c) ==
    [conn |-> c,
     ret  |-> (IF c.tx_need_rx THEN {"POLLIN"} ELSE {}) \cup {"POLLOUT"} \cup {"POLLERR"}]

get_conn_pending_rx5(c) ==
    [conn |-> c,
     ret  |-> (IF c.rx_need_tx THEN {"POLLOUT"} ELSE {}) \cup {"POLLIN"} \cup {"POLLERR"}]

get_conn_pending_tx(d, c) ==
    IF d = 4 THEN get_conn_pending_tx4(c) ELSE get_conn_pending_tx5(c)

get_conn_pending_rx(d, c) ==
    IF d = 4 THEN get_conn_pending_rx4(c) ELSE get_conn_pending_rx5(c)

\* --------------------------------------------------------------- teardown
\* Demo 3: BIO_free_all(bio).
teardown3(hp) == BIO_free_all(hp, "ssl_bio")

\* Demo 4: SSL_shutdown (its result is dropped), SSL_free, free.
teardown4(hp) == free(SSL_free(hp), "conn")

\* Faulty variant of teardown5: BIO_free_all(net_bio) is missing.
teardown5_leak(hp) == free(BIO_free_all(hp, "ssl_bio"), "conn")

\* Demo 5: BIO_free_all(ssl_bio), BIO_free_all(net_bio), free.
teardown5(hp) == free(BIO_free_all(BIO_free_all(hp, "ssl_bio"), "net_bio"), "conn")

teardown(d, hp) ==
    CASE d = 3 -> teardown3(hp) [] d = 4 -> teardown4(hp) [] d = 5 -> teardown5(hp)

teardown_ctx(hp) == free(hp, "ctx")


\* ------------------------------------------------- the BIO pair (net_bio)
\* sizeof(buf) in pump.
sizeof_buf == BufLen

\* The pair as BIO_new_bio_pair makes it, each direction holding size bytes.
EmptyNet(size) == [out |-> <<>>, in |-> <<>>, size |-> size]

\* BIO_ctrl_get_write_guarantee(net_bio).
net_rx_space(n) == n.size - Len(n.in)

\* BIO_ctrl_pending(net_bio).
net_tx_avail(n) == Len(n.out)

\* BIO_read(net_bio): takes up to buf_len bytes the engine queued; nothing
\* queued is a retry result (-1).
read_net_tx(n, buf_len) ==
    IF Len(n.out) = 0 \/ buf_len = 0
    THEN [net |-> n, ret |-> -1, bytes |-> <<>>]
    ELSE LET l == Min(Len(n.out), buf_len)
         IN  [net   |-> [n EXCEPT !.out = SubSeq(@, l + 1, Len(@))],
              ret   |-> l,
              bytes |-> SubSeq(n.out, 1, l)]

\* BIO_write(net_bio): stores as many bytes as there is room for.
write_net_rx(n, bytes) ==
    LET l2 == Min(Len(bytes), n.size - Len(n.in))
    IN  IF l2 = 0 THEN [net |-> n, ret |-> -1]
        ELSE [net |-> [n EXCEPT !.in = @ \o SubSeq(bytes, 1, l2)], ret |-> l2]

\* What a tx/rx call with outcome o lets the engine do to the BIO pair: take
\* bytes from the input side, queue bytes on the output side.  The engine
\* reports WANT_READ only with the input side drained, WANT_WRITE only with
\* the output side full.
engine_io5(e, n, o) ==
    IF e.st = "failed" THEN {[eng |-> [e EXCEPT !.st = o.st], net |-> n]}
    ELSE {[eng |-> [e EXCEPT !.st = o.st, !.out = e.out + k],
           net |-> [n EXCEPT !.out = n.out \o Bytes(e.out, k),
                             !.in  = SubSeq(n.in, j + 1, Len(n.in))]] :
            k \in {x \in 0..Min(n.size - Len(n.out), e.len - e.out) :
                     o.rc = "SSL_ERROR_WANT_WRITE" => Len(n.out) + x = n.size},
            j \in {y \in 0..Len(n.in) :
                     o.rc = "SSL_ERROR_WANT_READ" => y = Len(n.in)}}

\* With a descriptor the engine does its own I/O on fd, inside libssl.
engine_io4(e, n, o) == {[eng |-> [e EXCEPT !.st = o.st], net |-> n]}

engine_io(d, e, n, o) == IF d = 5 THEN engine_io5(e, n, o) ELSE engine_io4(e, n, o)

\* ------------------------------------------------------ the real transport
\* errno is EAGAIN or something else (0 at the start).
NewWire(len) ==
    [written |-> <<>>, rpos |-> 0, eof |-> FALSE, errno |-> "other", len |-> len]

\* poll(&pfd, 1, timeout): 0 is the timeout, -1 an error (revents stays 0),
\* 1 reports some of the events asked for, or an error or hang-up (POLLERR
\* stands for POLLERR, POLLHUP and POLLNVAL: pump tests none of them).
poll(w, events) ==
         {[rc |-> 0, revents |-> {}, wire |-> w]}
    \cup {[rc |-> -1, revents |-> {}, wire |-> [w EXCEPT !.errno = "other"]]}
    \cup {[rc |-> 1, revents |-> r, wire |-> w] :
            r \in (SUBSET (events \cup {"POLLERR"})) \ {{}}}

\* read(fd, buf, want): bytes, end of stream (0, errno untouched), or -1
\* with errno set.
read(w, want) ==
         {[wire |-> [w EXCEPT !.rpos = @ + k], l |-> k, bytes |-> Bytes(w.rpos, k)] :
            k \in 1..(IF w.eof THEN 0 ELSE Min(want, w.len - w.rpos))}
    \cup {[wire |-> [w EXCEPT !.eof = TRUE], l |-> 0, bytes |-> <<>>]}
    \cup {[wire |-> [w EXCEPT !.errno = e], l |-> -1, bytes |-> <<>>] :
            e \in (IF w.eof THEN {"other"} ELSE {"EAGAIN", "other"})}

\* write(fd, buf, l): all of the bytes, the first few, or -1 with errno set.
write(w, bytes) ==
         {[wire |-> [w EXCEPT !.written = @ \o SubSeq(bytes, 1, k)], l2 |-> k] :
            k \in 1..Len(bytes)}
    \cup {[wire |-> [w EXCEPT !.errno = e], l2 |-> -1] : e \in {"EAGAIN", "other"}}

\* errno after a call into the engine (SSL_write, SSL_read).  With a BIO
\* pair the engine makes no system call: errno is as it was, or reset to 0
\* if the library clears it.  With a descriptor the engine reads and writes
\* fd itself and may leave any value.
ssl_errno(d, w) ==
    {[w EXCEPT !.errno = e] :
       e \in (IF d = 5 THEN {w.errno, "other"} ELSE {w.errno, "EAGAIN", "other"})}

\* ------------------------------------------------------------------- pump
\* What one pump call did, for the record: whether it called poll, with which
\* events and what poll returned, and one entry per read, write_net_rx,
\* read_net_tx and write it made, in order.  arg is the length asked for,
\* ret the result, errno what the call itself left in errno ("unset" when it
\* wrote none).
NoSys == [polled |-> FALSE, events |-> {}, rc |-> 0, io |-> <<>>]

Io(call, arg, ret, errno) == [call |-> call, arg |-> arg, ret |-> ret, errno |-> errno]

\* Faulty variant of read_phase: read is asked for sizeof(buf) bytes, however
\* little room the pair has.
RECURSIVE read_phase_unclamped(_, _, _)
read_phase_unclamped(n, w, t) ==
    LET wspace == net_rx_space(n)
        want == sizeof_buf
    IN  IF ~(wspace > 0)
        THEN {[net |-> n, wire |-> w, exit |-> "stop", io |-> t]}
        ELSE UNION {
               LET t1 == Append(t, Io("read", want, rd.l,
                                      IF rd.l < 0 THEN rd.wire.errno ELSE "unset"))
               IN  IF rd.l <= 0
                   THEN IF rd.wire.errno = "EAGAIN"
                        THEN {[net |-> n, wire |-> rd.wire, exit |-> "stop", io |-> t1]}
                        ELSE {[net |-> n, wire |-> rd.wire, exit |-> "return", io |-> t1]}
                   ELSE LET st == write_net_rx(n, rd.bytes)
                        IN  read_phase_unclamped(st.net, rd.wire,
                                       Append(t1, Io("write_net_rx", rd.l, st.ret, "unset")))
               : rd \in read(w, want)}

\* The read loop of pump: every way it can run from (n, w), t being the
\* calls made so far.  exit is "stop" when the loop ends or jumps to stop,
\* "return" when pump returns -1.
RECURSIVE read_phase(_, _, _)
read_phase(n, w, t) ==
    LET wspace == net_rx_space(n)
        want == IF wspace > sizeof_buf THEN sizeof_buf ELSE wspace
    IN  IF ~(wspace > 0)
        THEN {[net |-> n, wire |-> w, exit |-> "stop", io |-> t]}
        ELSE UNION {
               LET t1 == Append(t, Io("read", want, rd.l,
                                      IF rd.l < 0 THEN rd.wire.errno ELSE "unset"))
               IN  IF rd.l <= 0
                   THEN IF rd.wire.errno = "EAGAIN"
                        THEN {[net |-> n, wire |-> rd.wire, exit |-> "stop", io |-> t1]}
                        ELSE {[net |-> n, wire |-> rd.wire, exit |-> "return", io |-> t1]}
                   ELSE LET st == write_net_rx(n, rd.bytes)
                        IN  read_phase(st.net, rd.wire,
                                       Append(t1, Io("write_net_rx", rd.l, st.ret, "unset")))
               : rd \in read(w, want)}

\* The write loop of pump: a short or failed write is reported on stderr and
\* the loop goes on.
RECURSIVE write_phase(_, _, _)
write_phase(n, w, t) ==
    LET rd == read_net_tx(n, sizeof_buf)
        t1 == Append(t, Io("read_net_tx", sizeof_buf, rd.ret, "unset"))
    IN  IF rd.ret <= 0
        THEN {[net |-> rd.net, wire |-> w, io |-> t1]}
        ELSE UNION {write_phase(rd.net, wr.wire,
                                Append(t1, Io("write", rd.ret, wr.l2,
                                              IF wr.l2 < 0 THEN wr.wire.errno ELSE "unset")))
                    : wr \in write(w, rd.bytes)}

\* The bytes the first i calls of a pump call stored in the pair with
\* write_net_rx.
RECURSIVE stored(_, _)
stored(io, i) ==
    IF i = 0 THEN 0
    ELSE stored(io, i - 1)
         + (IF io[i].call = "write_net_rx" /\ io[i].ret > 0 THEN io[i].ret ELSE 0)

\* Faulty variant of pump_events: POLLIN stays when the pair has no room.
pump_events_keepin(n, events) ==
    LET ev0 == events \cap {"POLLIN", "POLLERR"}
    IN  IF net_tx_avail(n) > 0 THEN ev0 \cup {"POLLOUT"} ELSE ev0

\* Faulty variant of pump_events: POLLOUT is taken from the caller's events.
pump_events_asked(n, events) ==
    IF net_rx_space(n) = 0 THEN events \ {"POLLIN"} ELSE events

\* Faulty variant of pump_events: the caller's POLLOUT is not masked out.
pump_events_nomask(n, events) ==
    LET ev1 == IF net_rx_space(n) = 0 THEN events \ {"POLLIN"} ELSE events
    IN  IF net_tx_avail(n) > 0 THEN ev1 \cup {"POLLOUT"} ELSE ev1

\* The events pump hands to poll, from the caller's events and the pair.
pump_events(n, events) ==
    LET ev0 == events \cap {"POLLIN", "POLLERR"}
        ev1 == IF net_rx_space(n) = 0 THEN ev0 \ {"POLLIN"} ELSE ev0
    IN  IF net_tx_avail(n) > 0 THEN ev1 \cup {"POLLOUT"} ELSE ev1

\* Faulty variant of pump: the write loop runs before the read loop.
pump_drain_first(c, n, w, events) ==
    LET ev2 == pump_events(n, events)
    IN  IF ev2 \cap {"POLLIN", "POLLOUT"} = {}
        THEN {[conn |-> c, net |-> n, wire |-> w, ret |-> 1, sys |-> NoSys]}
        ELSE UNION {
               LET sy == [polled |-> TRUE, events |-> ev2, rc |-> p.rc, io |-> <<>>]
               IN  IF p.rc = 0
                   THEN {[conn |-> c, net |-> n, wire |-> p.wire, ret |-> -1, sys |-> sy]}
                   ELSE UNION {
                          {[conn |-> c, net |-> r.net, wire |-> r.wire,
                            ret |-> IF r.exit = "return" THEN -1 ELSE 1,
                            sys |-> [sy EXCEPT !.io = r.io]] :
                             r \in (IF "POLLIN" \in p.revents
                                    THEN read_phase(x.net, x.wire, x.io)
                                    ELSE {[net |-> x.net, wire |-> x.wire,
                                           exit |-> "stop", io |-> x.io]})}
                          : x \in (IF "POLLOUT" \in p.revents
                                   THEN write_phase(n, p.wire, <<>>)
                                   ELSE {[net |-> n, wire |-> p.wire, io |-> <<>>]})}
               : p \in poll(w, ev2)}

\* Faulty variant of pump: a call that polled clears both hints.
pump_clears_hints(c, n, w, events) ==
    LET ev2 == pump_events(n, events)
    IN  IF ev2 \cap {"POLLIN", "POLLOUT"} = {}
        THEN {[conn |-> c, net |-> n, wire |-> w, ret |-> 1, sys |-> NoSys]}
        ELSE UNION {
               LET sy == [polled |-> TRUE, events |-> ev2, rc |-> p.rc, io |-> <<>>]
               IN  IF p.rc = 0
                   THEN {[conn |-> ZeroConn, net |-> n, wire |-> p.wire, ret |-> -1,
                          sys |-> sy]}
                   ELSE UNION {
                          IF r.exit = "return"
                          THEN {[conn |-> ZeroConn, net |-> r.net, wire |-> r.wire,
                                 ret |-> -1, sys |-> [sy EXCEPT !.io = r.io]]}
                          ELSE {[conn |-> ZeroConn, net |-> x.net, wire |-> x.wire,
                                 ret |-> 1, sys |-> [sy EXCEPT !.io = x.io]] :
                                  x \in (IF "POLLOUT" \in p.revents
                                         THEN write_phase(r.net, r.wire, r.io)
                                         ELSE {[net |-> r.net, wire |-> r.wire, io |-> r.io]})}
                          : r \in (IF "POLLIN" \in p.revents
                                   THEN read_phase(n, p.wire, <<>>)
                                   ELSE {[net |-> n, wire |-> p.wire, exit |-> "stop",
                                          io |-> <<>>]})}
               : p \in poll(w, ev2)}

\* pump(conn, fd, events, timeout): every result it can have.
pump(c, n, w, events) ==
    LET ev2 == pump_events(n, events)
    IN  IF ev2 \cap {"POLLIN", "POLLOUT"} = {}
        THEN {[conn |-> c, net |-> n, wire |-> w, ret |-> 1, sys |-> NoSys]}
        ELSE UNION {
               LET sy == [polled |-> TRUE, events |-> ev2, rc |-> p.rc, io |-> <<>>]
               IN  IF p.rc = 0
                   THEN {[conn |-> c, net |-> n, wire |-> p.wire, ret |-> -1, sys |-> sy]}
                   ELSE UNION {
                          IF r.exit = "return"
                          THEN {[conn |-> c, net |-> r.net, wire |-> r.wire, ret |-> -1,
                                 sys |-> [sy EXCEPT !.io = r.io]]}
                          ELSE {[conn |-> c, net |-> x.net, wire |-> x.wire, ret |-> 1,
                                 sys |-> [sy EXCEPT !.io = x.io]] :
                                  x \in (IF "POLLOUT" \in p.revents
                                         THEN write_phase(r.net, r.wire, r.io)
                                         ELSE {[net |-> r.net, wire |-> r.wire, io |-> r.io]})}
                          : r \in (IF "POLLIN" \in p.revents
                                   THEN read_phase(n, p.wire, <<>>)
                                   ELSE {[net |-> n, wire |-> p.wire, exit |-> "stop",
                                          io |-> <<>>]})}
               : p \in poll(w, ev2)}


\* ------------------------------------------------------------ the caller
new_conn(d, hp, fail) ==
    CASE d = 3 -> new_conn3(hp, fail)
      [] d = 4 -> new_conn4(hp, fail)
      [] d = 5 -> new_conn5(hp, fail)

NewConnSteps(d) ==
    CASE d = 3 -> NewConnSteps3 [] d = 4 -> NewConnSteps4 [] d = 5 -> NewConnSteps5

\* The record of a call: its name, its result (ret, or ev for an event set),
\* and for tx/rx the engine's result l, its error code rc and the length asked.
Last(op, ret, ev, l, rc, len) ==
    [op |-> op, ret |-> ret, ev |-> ev, l |-> l, rc |-> rc, len |-> len]

\* main's locals before main runs.
NoMain ==
    [at |-> "idle", tx_p |-> 0, tx_len |-> 0, rx_p |-> 0, rx_len |-> 0,
     res |-> 1, sent |-> <<>>]

Init ==
    /\ demo \in {3, 4, 5}
    /\ pc = "start"
    /\ h = NoHeap
    /\ conn = ZeroConn
    /\ eng = [st |-> "handshake", out |-> 0, len |-> MaxStream]
    /\ net = EmptyNet(Cap)
    /\ wire = NewWire(MaxStream)
    /\ last = Last("none", 0, {}, 0, "none", 0)
    /\ sys = NoSys
    /\ drv = NoMain

CreateSslCtx ==
    /\ pc = "start"
    /\ \E fail \in CtxSteps \cup {"none"} :
         LET r == create_ssl_ctx(h, fail)
         IN  /\ h' = r.h
             /\ pc' = IF r.ret = "NULL" THEN "noctx" ELSE "ctx"
             /\ last' = Last("create_ssl_ctx", 0, {}, 0, fail, 0)
    /\ UNCHANGED <<demo, conn, eng, net, wire, drv>>
    /\ sys' = NoSys

NewConn ==
    /\ pc = "ctx"
    /\ \E fail \in NewConnSteps(demo) \cup {"none"} :
         LET r == new_conn(demo, h, fail)
         IN  /\ h' = r.h
             /\ pc' = IF r.ret = "NULL" THEN "noconn" ELSE "live"
             /\ last' = Last("new_conn", 0, {}, 0, fail, 0)
    /\ UNCHANGED <<demo, conn, eng, net, wire, drv>>
    /\ sys' = NoSys

\* A blocking BIO (demo 3) never reports a would-block cause.
Outcomes(set) == IF demo = 3 THEN {o \in set : o.rc \notin WouldBlockCause} ELSE set

Tx ==
    /\ pc = "live"
    /\ \E len \in 0..MaxLen :
         \E o \in Outcomes(attempt_write(eng, len)) :
           \E io \in engine_io(demo, eng, net, o) :
             LET r == tx(demo, conn, o.l, o.rc)
             IN  /\ conn' = r.conn
                 /\ eng' = io.eng
                 /\ net' = io.net
                 /\ last' = Last("tx", r.ret, {}, o.l, o.rc, len)
    /\ wire' \in ssl_errno(demo, wire)
    /\ UNCHANGED <<demo, pc, h, drv>>
    /\ sys' = NoSys

Rx ==
    /\ pc = "live"
    /\ \E len \in 0..MaxLen :
         \E o \in Outcomes(attempt_read(eng, len)) :
           \E io \in engine_io(demo, eng, net, o) :
             LET r == rx(demo, conn, o.l, o.rc)
             IN  /\ conn' = r.conn
                 /\ eng' = io.eng
                 /\ net' = io.net
                 /\ last' = Last("rx", r.ret, {}, o.l, o.rc, len)
    /\ wire' \in ssl_errno(demo, wire)
    /\ UNCHANGED <<demo, pc, h, drv>>
    /\ sys' = NoSys

GetConnPendingTx ==
    /\ pc = "live"
    /\ demo \in {4, 5}
    /\ LET r == get_conn_pending_tx(demo, conn)
       IN  /\ conn' = r.conn
           /\ last' = Last("get_conn_pending_tx", 0, r.ret, 0, "none", 0)
    /\ UNCHANGED <<demo, pc, h, eng, net, wire, drv>>
    /\ sys' = NoSys

GetConnPendingRx ==
    /\ pc = "live"
    /\ demo \in {4, 5}
    /\ LET r == get_conn_pending_rx(demo, conn)
       IN  /\ conn' = r.conn
           /\ last' = Last("get_conn_pending_rx", 0, r.ret, 0, "none", 0)
    /\ UNCHANGED <<demo, pc, h, eng, net, wire, drv>>
    /\ sys' = NoSys

Pump ==
    /\ pc = "live"
    /\ demo = 5
    /\ \E events \in SUBSET {"POLLIN", "POLLOUT", "POLLERR"} :
         \E r \in pump(conn, net, wire, events) :
           /\ conn' = r.conn
           /\ net' = r.net
           /\ wire' = r.wire
           /\ last' = Last("pump", r.ret, {}, 0, "none", 0)
    /\ sys' = NoSys
    /\ UNCHANGED <<demo, pc, h, eng, drv>>

\* shutdown_ok: whether the orderly close (SSL_shutdown, called by teardown
\* or by the SSL BIO's release) succeeds; the code never looks.
Teardown ==
    /\ pc = "live"
    /\ \E shutdown_ok \in BOOLEAN :
         /\ h' = teardown(demo, h)
         /\ last' = Last("teardown", IF shutdown_ok THEN 1 ELSE -1, {}, 0, "none", 0)
    /\ pc' = "torn"
    \* The record and the buffers are gone with the memory that held them.
    /\ conn' = ZeroConn
    /\ net' = EmptyNet(net.size)
    /\ eng' = [eng EXCEPT !.out = 0]
    /\ UNCHANGED <<demo, wire, drv>>
    /\ sys' = NoSys

TeardownCtx ==
    /\ pc \in {"torn", "noconn"}
    /\ h' = teardown_ctx(h)
    /\ pc' = "end"
    /\ last' = Last("teardown_ctx", 0, {}, 0, "none", 0)
    /\ UNCHANGED <<demo, conn, eng, net, wire, drv>>
    /\ sys' = NoSys

Next ==
    \/ CreateSslCtx
    \/ NewConn
    \/ Tx
    \/ Rx
    \/ GetConnPendingTx
    \/ GetConnPendingRx
    \/ Pump
    \/ Teardown
    \/ TeardownCtx

Spec == Init /\ [][Next]_vars


\* ------------------------------------------------------------------- main
\* The example drivers of demos 4 and 5, from the call of new_conn on: main
\* has its SSL_CTX and its connected, non-blocking socket.

\* tx_msg: the bytes of the message, named by their place in it.
tx_msg == Bytes(0, MsgLen)

MainStart ==
    [at |-> "tx", tx_p |-> 0, tx_len |-> MsgLen, rx_p |-> 0, rx_len |-> RxLen,
     res |-> 1, sent |-> <<>>]

\* Faulty variant of main_tx: tx_p += l is missing.
main_tx_stuck(d, dr, l) ==
    IF l > 0
    THEN [dr EXCEPT !.tx_len = @ - l,
                    !.sent = @ \o SubSeq(tx_msg, dr.tx_p + 1, dr.tx_p + l),
                    !.at = IF dr.tx_len - l # 0 THEN "tx" ELSE "rx"]
    ELSE IF l = -1 THEN (IF d = 4 THEN [dr EXCEPT !.at = "fail"] ELSE dr)
    ELSE IF l = -2 THEN [dr EXCEPT !.at = "tx_wait"]
    ELSE dr

\* The body of the TX loop after l = tx(conn, tx_p, tx_len), and the loop
\* test that follows it.  sent is the bytes tx reported as accepted, in order.
\* Demo 4 leaves the loop for fail on -1; demo 5 only reports it.
main_tx(d, dr, l) ==
    IF l > 0
    THEN [dr EXCEPT !.tx_p = @ + l, !.tx_len = @ - l,
                    !.sent = @ \o SubSeq(tx_msg, dr.tx_p + 1, dr.tx_p + l),
                    !.at = IF dr.tx_len - l # 0 THEN "tx" ELSE "rx"]
    ELSE IF l = -1 THEN (IF d = 4 THEN [dr EXCEPT !.at = "fail"] ELSE dr)
    ELSE IF l = -2 THEN [dr EXCEPT !.at = "tx_wait"]
    ELSE dr

\* The body of the RX loop after l = rx(conn, rx_p, rx_len).  Leaving the
\* loop, by break or with the buffer full, main prints what it has, sets res
\* to 0 and reaches fail.
main_rx(d, dr, l) ==
    IF l > 0
    THEN IF dr.rx_len - l # 0
         THEN [dr EXCEPT !.rx_p = @ + l, !.rx_len = @ - l]
         ELSE [dr EXCEPT !.rx_p = @ + l, !.rx_len = @ - l, !.res = 0, !.at = "fail"]
    ELSE IF l = -1 THEN [dr EXCEPT !.res = 0, !.at = "fail"]
    ELSE IF l = -2 THEN [dr EXCEPT !.at = "rx_wait"]
    ELSE dr

\* Faulty variant of main_wait: a failed wait is retried.
main_wait_retry(dr, failed, back) == [dr EXCEPT !.at = back]

\* After the wait that follows a would-block: failed is poll(...) == 0 in
\* demo 4 and pump(...) != 1 in demo 5; back is the loop to go on with.
main_wait(dr, failed, back) ==
    IF failed THEN [dr EXCEPT !.at = "fail"] ELSE [dr EXCEPT !.at = back]

MainInit ==
    /\ demo \in {4, 5}
    /\ pc = "ctx"
    /\ h = create_ssl_ctx(NoHeap, "none").h
    /\ conn = ZeroConn
    /\ eng = [st |-> "handshake", out |-> 0, len |-> RunLen]
    /\ net = EmptyNet(PairSize)
    /\ wire = NewWire(PeerLen)
    /\ last = Last("create_ssl_ctx", 0, {}, 0, "none", 0)
    /\ sys = NoSys
    /\ drv = MainStart

MainTx ==
    /\ pc = "live"
    /\ drv.at = "tx"
    /\ \E o \in attempt_write(eng, drv.tx_len) :
         \E io \in engine_io(demo, eng, net, o) :
           LET r == tx(demo, conn, o.l, o.rc)
           IN  /\ conn' = r.conn
               /\ eng' = io.eng
               /\ net' = io.net
               /\ last' = Last("tx", r.ret, {}, o.l, o.rc, drv.tx_len)
               /\ drv' = main_tx(demo, drv, r.ret)
    /\ wire' \in ssl_errno(demo, wire)
    /\ sys' = NoSys
    /\ UNCHANGED <<demo, pc, h>>

MainRx ==
    /\ pc = "live"
    /\ drv.at = "rx"
    /\ \E o \in attempt_read(eng, drv.rx_len) :
         \E io \in engine_io(demo, eng, net, o) :
           LET r == rx(demo, conn, o.l, o.rc)
           IN  /\ conn' = r.conn
               /\ eng' = io.eng
               /\ net' = io.net
               /\ last' = Last("rx", r.ret, {}, o.l, o.rc, drv.rx_len)
               /\ drv' = main_rx(demo, drv, r.ret)
    /\ wire' \in ssl_errno(demo, wire)
    /\ sys' = NoSys
    /\ UNCHANGED <<demo, pc, h>>

\* Demo 4 after -2: poll on the descriptor with the events the query yields.
MainPoll ==
    /\ pc = "live"
    /\ demo = 4
    /\ drv.at \in {"tx_wait", "rx_wait"}
    /\ LET q == IF drv.at = "tx_wait" THEN get_conn_pending_tx(demo, conn)
                                      ELSE get_conn_pending_rx(demo, conn)
       IN  \E p \in poll(wire, q.ret) :
             /\ conn' = q.conn
             /\ wire' = p.wire
             /\ last' = Last("poll", p.rc, q.ret, 0, "none", 0)
             /\ drv' = main_wait(drv, p.rc = 0, IF drv.at = "tx_wait" THEN "tx" ELSE "rx")
    /\ sys' = NoSys
    /\ UNCHANGED <<demo, pc, h, eng, net>>

\* Demo 5 after -2: pump with the events the query yields.
MainPump ==
    /\ pc = "live"
    /\ demo = 5
    /\ drv.at \in {"tx_wait", "rx_wait"}
    /\ LET q == IF drv.at = "tx_wait" THEN get_conn_pending_tx(demo, conn)
                                      ELSE get_conn_pending_rx(demo, conn)
       IN  \E r \in pump(q.conn, net, wire, q.ret) :
             /\ conn' = r.conn
             /\ net' = r.net
             /\ wire' = r.wire
             /\ sys' = r.sys
             /\ last' = Last("pump", r.ret, q.ret, 0, "none", 0)
             /\ drv' = main_wait(drv, r.ret # 1, IF drv.at = "tx_wait" THEN "tx" ELSE "rx")
    /\ UNCHANGED <<demo, pc, h, eng>>

\* fail: teardown(conn), conn being non-NULL.
MainFail ==
    /\ drv.at = "fail"
    /\ Teardown

MainNext ==
    \/ NewConn
    \/ MainTx
    \/ MainRx
    \/ MainPoll
    \/ MainPump
    \/ MainFail
    \/ TeardownCtx

MainSpec == MainInit /\ [][MainNext]_vars


\* ------------------------------------------------------- pump, call by call
\* pump applied to the states a live Memory Binding connection can be in,
\* the pair holding size bytes a direction:
\* the engine has emitted its RunLen bytes of which k wait in the pair, the peer's
\* first r bytes have been read of which j wait in the pair, each hint either
\* way, errno as an earlier call left it.  Every call is recorded in sys, and
\* the events it was given in last.
PumpInit ==
    /\ demo = 5
    /\ pc = "live"
    /\ h = new_conn5(create_ssl_ctx(NoHeap, "none").h, "none").h
    /\ conn \in [rx_need_tx : BOOLEAN, tx_need_rx : BOOLEAN]
    /\ \E size \in 1..PairSize, r \in 0..PeerLen :
         \E k \in 0..Min(RunLen, size), j \in 0..Min(r, size) :
           /\ eng = [st |-> "established", out |-> RunLen, len |-> RunLen]
           /\ net = [out |-> Bytes(RunLen - k, k), in |-> Bytes(r - j, j), size |-> size]
           /\ \E eof \in BOOLEAN, errno \in {"EAGAIN", "other"} :
                wire = [written |-> Bytes(0, RunLen - k), rpos |-> r, eof |-> eof,
                        errno |-> errno, len |-> PeerLen]
    /\ last = Last("new_conn", 0, {}, 0, "none", 0)
    /\ sys = NoSys
    /\ drv = NoMain

PumpCall ==
    /\ pc = "live"
    /\ demo = 5
    /\ \E events \in SUBSET {"POLLIN", "POLLOUT", "POLLERR"} :
         \E r \in pump(conn, net, wire, events) :
           /\ conn' = r.conn
           /\ net' = r.net
           /\ wire' = r.wire
           /\ sys' = r.sys
           /\ last' = Last("pump", r.ret, events, 0, "none", 0)
    /\ UNCHANGED <<demo, pc, h, eng, drv>>

PumpNext == PumpCall

PumpSpec == PumpInit /\ [][PumpNext]_vars


\* ------------------------------------------------- main, with a live peer
\* Demo 5's main from the first pass of its TX loop on, against an engine and
\* a transport that do their part, with a BIO pair of any size from one byte
\* up.  The actions are main's; what is added to
\* each is what the engine, the transport and the peer are taken to do.

\* The length of each handshake flight: one byte more than a direction of the
\* BIO pair holds, so that no flight passes through the pair in one piece.
Flight == PairSize + 1

\* The peer answers with as many bytes as rx_msg has room for.
RespLen == RxLen

\* Bytes the engine has taken from encrypted_in_buffer so far.
Consumed == wire.rpos - Len(net.in)

\* What an engine that makes progress does in one call, given len bytes to
\* send (want = "tx") or room for len bytes (want = "rx"): it queues what
\* is left of its flight and takes what has come of the peer's as far as
\* the pair allows, then moves application bytes, one encrypted byte for one
\* byte of the caller's; it reports WANT_WRITE only for lack of room in the
\* pair and WANT_READ only for lack of input.  k is the bytes it queues, j
\* the bytes it takes.
engine_progress(want, len) ==
    LET space == net.size - Len(net.out)
        k1 == IF eng.st = "handshake" THEN Min(space, Flight - eng.out) ELSE 0
        j1 == IF eng.st = "handshake" THEN Min(Len(net.in), Flight - Consumed) ELSE 0
        R(k, j, l, rc, st) == [k |-> k, j |-> j, l |-> l, rc |-> rc, st |-> st]
    IN  IF eng.st = "handshake" /\ eng.out + k1 < Flight
        THEN R(k1, j1, -1, "SSL_ERROR_WANT_WRITE", "handshake")
        ELSE IF eng.st = "handshake" /\ Consumed + j1 < Flight
        THEN R(k1, j1, -1, "SSL_ERROR_WANT_READ", "handshake")
        ELSE IF want = "tx"
        THEN LET l == Min(len, space - k1)
             IN  IF l = 0 THEN R(k1, j1, -1, "SSL_ERROR_WANT_WRITE", "established")
                 ELSE R(k1 + l, j1, l, "SSL_ERROR_NONE", "established")
        ELSE LET l == Min(len, Len(net.in) - j1)
             IN  IF l = 0 THEN R(k1, j1, -1, "SSL_ERROR_WANT_READ", "established")
                 ELSE R(k1, j1 + l, l, "SSL_ERROR_NONE", "established")

\* The step just taken is the one engine_progress names.
EngineProgress(want, len) ==
    LET e == engine_progress(want, len)
    IN  /\ last'.l = e.l
        /\ last'.rc = e.rc
        /\ eng'.st = e.st
        /\ eng'.out = eng.out + e.k
        /\ Len(net'.in) = Len(net.in) - e.j

\* What the peer has sent when all it has to send has arrived: its flight
\* once it has the engine's, its answer once it has the message too, and
\* nothing for a stream that is not the one the engine emitted.
PeerTarget ==
    LET got == Len(wire.written)
    IN  IF wire.written # Bytes(0, got) THEN 0
        ELSE IF got >= Flight + MsgLen THEN Flight + RespLen
        ELSE IF got >= Flight THEN Flight
        ELSE 0

\* The pump call just made met a transport that is ready when poll says so:
\* poll reported an event pump acts on, or timed out with nothing to read,
\* nothing on its way from the peer and no wait for POLLOUT; read failed
\* only with EAGAIN, and not the first time after POLLIN; write failed only
\* with EAGAIN, and not the first time after POLLOUT.  A write may take fewer
\* bytes than it is handed.
TransportReady ==
    sys'.polled =>
        LET io == sys'.io
            ok(i) == io[i].ret >= 1 \/ (io[i].ret = -1 /\ io[i].errno = "EAGAIN")
            first(i) == \A j \in DOMAIN io : io[j].call = io[i].call => j >= i
        IN  IF sys'.rc = 1
            THEN /\ io # <<>>
                 /\ \A i \in DOMAIN io :
                       io[i].call \in {"read", "write"} =>
                          (ok(i) /\ (first(i) => io[i].ret >= 1))
            ELSE /\ sys'.rc = 0
                 /\ "POLLOUT" \notin sys'.events
                 /\ wire.rpos = wire.len
                 /\ wire.len >= PeerTarget

LiveInit ==
    /\ demo = 5
    /\ pc = "live"
    /\ h = new_conn5(create_ssl_ctx(NoHeap, "none").h, "none").h
    /\ conn = ZeroConn
    /\ eng = [st |-> "handshake", out |-> 0, len |-> Flight + MsgLen]
    /\ \E size \in 1..PairSize : net = EmptyNet(size)
    \* Nothing of the peer's has arrived; errno is as getaddrinfo, socket and
    \* connect left it.
    /\ \E e \in {"EAGAIN", "other"} : wire = [NewWire(0) EXCEPT !.errno = e]
    /\ last = Last("new_conn", 0, {}, 0, "none", 0)
    /\ sys = NoSys
    /\ drv = MainStart

LiveTx == MainTx /\ EngineProgress("tx", drv.tx_len)

LiveRx == MainRx /\ EngineProgress("rx", drv.rx_len)

LivePump == MainPump /\ TransportReady

\* More of what the peer has to send arrives at fd.
PeerSends ==
    /\ pc = "live"
    /\ wire.len < PeerTarget
    /\ \E n \in (wire.len + 1)..PeerTarget : wire' = [wire EXCEPT !.len = n]
    /\ UNCHANGED <<demo, pc, h, conn, eng, net, last, sys, drv>>

LiveMain == LiveTx \/ LiveRx \/ LivePump \/ MainFail \/ TeardownCtx

LiveNext == LiveMain \/ PeerSends

\* main runs while it can, and what the peer sends arrives.
LiveSpec ==
    LiveInit /\ [][LiveNext]_vars /\ WF_vars(LiveMain) /\ WF_vars(PeerSends)

\* ---------------------------------------- main, with a transport that ends
\* Demo 5's main from new_conn on, against a transport that may reach its
\* end at any time, seen by a read (which returns 0) or not yet (the peer
\* closed or reset the connection): from then on read returns 0 or -1 with
\* an error, and poll does not wait: it reports some of the events asked
\* for, or only an error or hang-up (POLLERR stands for both).  The engine
\* resets errno on every call, as a library that clears it does, and it
\* reports would-block only for the pair: WANT_READ with encrypted_in_buffer
\* empty, WANT_WRITE with encrypted_out_buffer full.
EndedPoll == wire.eof => (sys'.polled => sys'.rc = 1)

TransportEnds ==
    /\ pc = "live"
    /\ ~wire.eof
    /\ wire' = [wire EXCEPT !.eof = TRUE]
    /\ UNCHANGED <<demo, pc, h, conn, eng, net, last, sys, drv>>

EngineClearsErrno == wire'.errno = "other"

EngineWaitsOnPair ==
    last'.ret = -2 => last'.rc \in {"SSL_ERROR_WANT_READ", "SSL_ERROR_WANT_WRITE"}

EndInit ==
    /\ demo = 5
    /\ pc = "live"
    /\ h = new_conn5(create_ssl_ctx(NoHeap, "none").h, "none").h
    /\ conn = ZeroConn
    /\ eng = [st |-> "handshake", out |-> 0, len |-> RunLen]
    /\ net = EmptyNet(PairSize)
    /\ wire = NewWire(PeerLen)
    /\ last = Last("new_conn", 0, {}, 0, "none", 0)
    /\ sys = NoSys
    /\ drv = MainStart

EndTx == MainTx /\ EngineClearsErrno /\ EngineWaitsOnPair

EndRx == MainRx /\ EngineClearsErrno /\ EngineWaitsOnPair

EndPump == MainPump /\ EndedPoll

EndMain == EndTx \/ EndRx \/ EndPump \/ MainFail \/ TeardownCtx

EndNext == EndMain \/ TransportEnds

\* main runs while it can.
EndSpec == EndInit /\ [][EndNext]_vars /\ WF_vars(EndMain)

\* ================================================================ claims

\* C1: Descriptor Binding (demo 4): right after a tx call, tx_need_rx is
\* set if and only if that call returned would-block (-2) and the engine's
\* cause was WANT_READ; right after an rx call, rx_need_tx is set if and
\* only if that call returned -2 and the cause was WANT_WRITE.  So each hint
\* is clear after a call of its operation that ended in progress, in a fatal
\* result, or in a would-block with any other cause.
C1_HintIffCause4 ==
    demo = 4 =>
        /\ last.op = "tx" =>
             (conn.tx_need_rx <=>
                (last.ret = -2 /\ last.rc = "SSL_ERROR_WANT_READ"))
        /\ last.op = "rx" =>
             (conn.rx_need_tx <=>
                (last.ret = -2 /\ last.rc = "SSL_ERROR_WANT_WRITE"))

\* A tx that would-blocked for another cause, with rx_need_tx still set by an
\* earlier rx: tx_need_rx is clear.
C1_Witness ==
    /\ demo = 4
    /\ last.op = "tx"
    /\ last.ret = -2
    /\ last.rc = "SSL_ERROR_WANT_WRITE"
    /\ ~conn.tx_need_rx
    /\ conn.rx_need_tx

\* C2: Memory Binding (demo 5): the statement of C1 for demo 5: right after
\* a tx call tx_need_rx is set if and only if that same call would-blocked
\* with cause WANT_READ, and right after an rx call rx_need_tx is set if and
\* only if that call would-blocked with cause WANT_WRITE.
C2_HintIffCause5 ==
    demo = 5 =>
        /\ last.op = "tx" =>
             (conn.tx_need_rx <=>
                (last.ret = -2 /\ last.rc = "SSL_ERROR_WANT_READ"))
        /\ last.op = "rx" =>
             (conn.rx_need_tx <=>
                (last.ret = -2 /\ last.rc = "SSL_ERROR_WANT_WRITE"))

\* C3: tx (demos 4 and 5) returns the engine's byte count n, 0 < n <= the
\* requested length, when the engine accepted bytes; -2 exactly when the
\* engine's error is WANT_READ, WANT_WRITE or WANT_CONNECT; -1 for every
\* other engine error; and never 0 or any other non-positive value.
C3_TxThreeOutcomes ==
    (demo \in {4, 5} /\ last.op = "tx") =>
        /\ last.l > 0 => (last.ret = last.l /\ 0 < last.ret /\ last.ret <= last.len)
        /\ (last.ret = -2) <=> (last.l <= 0 /\ last.rc \in WouldBlockCause)
        /\ (last.ret = -1) <=> (last.l <= 0 /\ last.rc \notin WouldBlockCause)
        /\ last.ret \in {-1, -2} \cup (1..last.len)

\* The engine hands back 0 with a fatal error (demo 5): tx returns -1, not 0.
C3_Witness ==
    /\ demo = 5
    /\ last.op = "tx"
    /\ last.l = 0
    /\ last.rc \in FatalError
    /\ last.ret = -1

\* C4: rx (demos 4 and 5) returns -2 for every would-block cause the engine
\* can signal (WANT_READ, WANT_WRITE, WANT_CONNECT), and returns -1 only for
\* engine errors that are not would-block causes.
C4_RxWouldBlockSymmetric ==
    (demo \in {4, 5} /\ last.op = "rx") =>
        /\ (last.l <= 0 /\ last.rc \in WouldBlockCause) => last.ret = -2
        /\ last.ret = -1 => last.rc \notin WouldBlockCause

\* C5: the value rx (demos 4 and 5) returns for the peer's orderly close
\* (0 bytes, ZERO_RETURN) is returned for no fatal engine error.
C5_PeerClosedDistinct ==
    (demo \in {4, 5} /\ last.op = "rx" /\ last.rc = PeerClosed) =>
        \A l \in {-1, 0}, rc \in FatalError :
            rx(demo, conn, l, rc).ret # last.ret

\* C6: Memory Binding new_conn (demo 5): when it returns NULL, every
\* resource of the connection allocated so far has been released exactly
\* once: none is leaked, none released twice.
C6_NewConn5NoLeak ==
    (demo = 5 /\ pc = "noconn") =>
        \A r \in ConnResources : h.alloc[r] <= 1 /\ h.rel[r] = h.alloc[r]

\* C7: Descriptor Binding new_conn (demos 3 and 4) and create_ssl_ctx: when
\* either returns NULL, every resource it allocated has been released
\* exactly once; a failed new_conn leaves the caller's descriptor open and
\* the caller's SSL_CTX alone.
C7_DescriptorSetupNoLeak ==
    /\ pc = "noctx" => (h.alloc["ctx"] <= 1 /\ h.rel["ctx"] = h.alloc["ctx"])
    /\ (demo \in {3, 4} /\ pc = "noconn") =>
         /\ \A r \in ConnResources : h.alloc[r] <= 1 /\ h.rel[r] = h.alloc[r]
         /\ h.fd_open
         /\ h.alloc["ctx"] = 1 /\ h.rel["ctx"] = 0

\* Demo 4's new_conn failed at its last step, with the record, the engine and
\* the socket BIO allocated.
C7_Witness ==
    /\ demo = 4
    /\ pc = "noconn"
    /\ last.rc = "SSL_set_tlsext_host_name"
    /\ h.alloc["conn"] = 1 /\ h.alloc["ssl"] = 1 /\ h.alloc["fd_bio"] = 1

\* C8: after teardown of a successfully created connection, whatever tx, rx
\* and pump calls came before and whether or not the orderly close
\* succeeded, the engine, the connection record and the BIOs (Memory
\* Binding: both halves of the pair and the SSL BIO) have each been released
\* exactly once, and nothing else of the connection was ever allocated.
C8_TeardownReleasesAll ==
    pc = "torn" =>
        /\ \A r \in ConnResources : h.alloc[r] <= 1 /\ h.rel[r] = h.alloc[r]
        /\ h.rel["ssl"] = 1
        /\ demo = 3 => (h.rel["ssl_bio"] = 1 /\ h.rel["fd_bio"] = 1)
        /\ demo = 4 => (h.rel["conn"] = 1 /\ h.rel["fd_bio"] = 1)
        /\ demo = 5 => /\ h.rel["conn"] = 1
                       /\ h.rel["ssl_bio"] = 1
                       /\ h.rel["internal_bio"] = 1
                       /\ h.rel["net_bio"] = 1
        /\ h.fd_open

\* Memory Binding, torn down after a fatal result, the orderly close failing,
\* with bytes having gone through the pump.
C8_Witness ==
    /\ pc = "torn"
    /\ demo = 5
    /\ eng.st = "failed"
    /\ last.op = "teardown"
    /\ last.ret = -1
    /\ wire.rpos > 0

\* C9: get_conn_pending_tx returns {POLLOUT, POLLERR}, plus POLLIN exactly
\* when tx_need_rx is set; get_conn_pending_rx returns {POLLIN, POLLERR},
\* plus POLLOUT exactly when rx_need_tx is set (demos 4 and 5).
C9_PendingFromHints ==
    /\ last.op = "get_conn_pending_tx" =>
         /\ {"POLLOUT", "POLLERR"} \subseteq last.ev
         /\ last.ev \subseteq {"POLLIN", "POLLOUT", "POLLERR"}
         /\ "POLLIN" \in last.ev <=> conn.tx_need_rx
    /\ last.op = "get_conn_pending_rx" =>
         /\ {"POLLIN", "POLLERR"} \subseteq last.ev
         /\ last.ev \subseteq {"POLLIN", "POLLOUT", "POLLERR"}
         /\ "POLLOUT" \in last.ev <=> conn.rx_need_tx

C9_Witness ==
    /\ demo = 5
    /\ last.op = "get_conn_pending_tx"
    /\ conn.tx_need_rx
    /\ last.ev = {"POLLIN", "POLLOUT", "POLLERR"}

\* C10: a readiness query changes nothing of the connection and returns
\* what the query yields in the state it is called in; and neither a query
\* nor a pump call changes what get_conn_pending_tx and get_conn_pending_rx
\* yield.  So any number of queries with only queries and pump calls between
\* them return the same event set.
C10_QueryIdempotent ==
    [][ /\ last'.op = "get_conn_pending_tx" =>
             /\ UNCHANGED <<conn, eng, net, wire, h, pc>>
             /\ last'.ev = get_conn_pending_tx(demo, conn).ret
        /\ last'.op = "get_conn_pending_rx" =>
             /\ UNCHANGED <<conn, eng, net, wire, h, pc>>
             /\ last'.ev = get_conn_pending_rx(demo, conn).ret
        /\ last'.op \in {"get_conn_pending_tx", "get_conn_pending_rx", "pump"} =>
             /\ get_conn_pending_tx(demo, conn').ret = get_conn_pending_tx(demo, conn).ret
             /\ get_conn_pending_rx(demo, conn').ret = get_conn_pending_rx(demo, conn).ret
      ]_vars

\* A pump call that moved bytes both ways has returned with both hints set:
\* the queries yield what they yielded before it.
C10_Witness ==
    /\ demo = 5
    /\ last.op = "pump"
    /\ last.ret = 1
    /\ conn.tx_need_rx
    /\ conn.rx_need_tx
    /\ Len(wire.written) > 0
    /\ Len(net.in) > 0

\* C11: Memory Pump no-op: a pump call made with encrypted_out_buffer
\* empty and encrypted_in_buffer full, whatever events it is given, calls
\* neither poll nor read nor write, returns 1, and leaves both buffers, both
\* hints, the engine and the transport (errno included) as they were.
C11_PumpNoOp ==
    [][ (last'.op = "pump" /\ net_tx_avail(net) = 0 /\ net_rx_space(net) = 0) =>
            /\ ~sys'.polled
            /\ sys'.io = <<>>
            /\ last'.ret = 1
            /\ UNCHANGED <<net, conn, eng, wire>>
      ]_vars

\* A pump call asked for every event, with a hint set, found nothing pending
\* and no room: it did not poll.
C11_Witness ==
    /\ last.op = "pump"
    /\ last.ev = {"POLLIN", "POLLOUT", "POLLERR"}
    /\ net_tx_avail(net) = 0
    /\ net_rx_space(net) = 0
    /\ conn.tx_need_rx
    /\ ~sys.polled
    /\ last.ret = 1

\* C12: the TX loops of demos 4 and 5: a tx call that returns n > 0 moves
\* tx_p forward and tx_len down by n, and the bytes it accepted are the next
\* n bytes of the message; a tx call that returns -1 or -2, and every other
\* step, leaves tx_p, tx_len and the accepted bytes alone.  So the accepted
\* bytes are always the first tx_p bytes of the message, in order and once
\* each, tx_p + tx_len is the length of the message, and main is past the TX
\* loop other than by goto fail only with tx_len = 0.
C12_TxAccounting ==
    [][ /\ (last'.op = "tx" /\ last'.ret > 0) =>
              /\ drv'.tx_p = drv.tx_p + last'.ret
              /\ drv'.tx_len = drv.tx_len - last'.ret
              /\ drv'.sent = drv.sent \o SubSeq(tx_msg, drv.tx_p + 1, drv.tx_p + last'.ret)
        /\ ~(last'.op = "tx" /\ last'.ret > 0) =>
              /\ drv'.tx_p = drv.tx_p
              /\ drv'.tx_len = drv.tx_len
              /\ drv'.sent = drv.sent
        /\ drv'.sent = SubSeq(tx_msg, 1, drv'.tx_p)
        /\ drv'.tx_p + drv'.tx_len = MsgLen
        /\ drv'.tx_len >= 0
        /\ (drv'.at \in {"rx", "rx_wait"} \/ drv'.res = 0) =>
              (drv'.tx_len = 0 /\ drv'.sent = tx_msg)
      ]_vars

\* The TX loop has ended with the whole message accepted, the last call
\* having been handed less than the whole message.
C12_Witness ==
    /\ drv.at = "rx"
    /\ last.op = "tx"
    /\ last.len < MsgLen
    /\ last.ret > 0
    /\ drv.tx_len = 0
    /\ drv.sent = tx_msg


\* C13: Memory Pump stream integrity: while the connection lives, the bytes
\* written to the real transport are the first bytes the engine placed in
\* encrypted_out_buffer, in order and once each, and encrypted_in_buffer
\* holds the last bytes read from the real transport, in order and once each
\* (the engine takes bytes from its front only): no encrypted byte is lost,
\* duplicated or reordered in either direction.
C13_StreamIntegrity ==
    (demo = 5 /\ pc = "live") =>
        /\ Len(wire.written) <= eng.out
        /\ wire.written = Bytes(0, Len(wire.written))
        /\ net.in = Bytes(wire.rpos - Len(net.in), Len(net.in))


\* C15: a wait that times out ends the exchange.  Memory Binding: a pump
\* call whose poll returns 0 returns -1, makes no read and no write, and
\* leaves both buffers and the transport as they were.  Descriptor Binding:
\* main's own poll returns 0.  In both, main goes to fail, and from fail it
\* calls neither tx nor rx nor waits again.
C15_TimeoutTerminal ==
    [][ /\ (last'.op = "pump" /\ sys'.polled /\ sys'.rc = 0) =>
              /\ last'.ret = -1
              /\ sys'.io = <<>>
              /\ UNCHANGED <<net, wire>>
              /\ drv'.at = "fail"
        /\ (last'.op = "poll" /\ last'.ret = 0) =>
              /\ UNCHANGED <<net, wire>>
              /\ drv'.at = "fail"
        /\ drv.at = "fail" =>
              /\ drv'.at = "fail"
              /\ last'.op \notin {"tx", "rx", "pump", "poll"}
      ]_vars

\* Memory Binding: pump timed out with bytes waiting to be written and main
\* is at fail.
C15_Witness ==
    /\ demo = 5
    /\ last.op = "pump"
    /\ sys.polled
    /\ sys.rc = 0
    /\ last.ret = -1
    /\ net_tx_avail(net) > 0
    /\ drv.at = "fail"
    /\ pc = "live"


\* C16: in the drivers of demos 4 and 5, right after a tx call that returned
\* the fatal sentinel -1 main is at fail, where the next thing it does is
\* teardown: it is not back in the TX loop, about to call tx again.
C16_FatalTxExits ==
    (demo \in {4, 5} /\ drv.at # "idle" /\ last.op = "tx" /\ last.ret = -1) =>
        drv.at = "fail"


\* C17: pump's write phase: once it has run, encrypted_out_buffer is empty
\* or the last write to the real transport would have blocked; and after a
\* write that would have blocked (-1, EAGAIN) the same call takes no more
\* bytes out of encrypted_out_buffer.
C17_WriteStopsOnBlock ==
    last.op = "pump" =>
        LET io == sys.io
            W  == {i \in DOMAIN io : io[i].call = "write"}
        IN  /\ (\E i \in DOMAIN io : io[i].call = "read_net_tx") =>
                  \/ net_tx_avail(net) = 0
                  \/ \E i \in W : /\ \A j \in W : j <= i
                                  /\ io[i].ret < 0 /\ io[i].errno = "EAGAIN"
            /\ \A i \in W :
                  (io[i].ret < 0 /\ io[i].errno = "EAGAIN") =>
                     \A j \in DOMAIN io :
                        (j > i /\ io[j].call = "read_net_tx") => io[j].ret <= 0

\* C18: a pump call in which some write to the real transport took fewer
\* bytes than it was handed (a failed write included) does not return 1.
C18_ShortWriteSurfaced ==
    last.op = "pump" =>
        ((\E i \in DOMAIN sys.io :
             sys.io[i].call = "write" /\ sys.io[i].ret < sys.io[i].arg)
           => last.ret # 1)

\* C19: the events pump waits on: POLLIN only if the caller asked for it
\* and encrypted_in_buffer has room; POLLOUT whenever encrypted_out_buffer
\* has bytes pending, asked for or not; and with neither, pump returns 1
\* without calling poll.
C19_PumpInterest ==
    [][ last'.op = "pump" =>
          LET rd == "POLLIN" \in last'.ev /\ net_rx_space(net) > 0
              wr == net_tx_avail(net) > 0
          IN  /\ sys'.polled =>
                    /\ "POLLIN" \in sys'.events => rd
                    /\ wr => "POLLOUT" \in sys'.events
              /\ wr => sys'.polled
              /\ (~rd /\ ~wr) => (~sys'.polled /\ sys'.io = <<>> /\ last'.ret = 1)
      ]_vars

\* The caller asked for POLLIN and not for POLLOUT; there was no room and
\* there were bytes pending: pump waited for POLLOUT and not for POLLIN.
C19_Witness ==
    /\ last.op = "pump"
    /\ last.ev = {"POLLIN", "POLLERR"}
    /\ sys.polled
    /\ sys.events = {"POLLOUT", "POLLERR"}
    /\ net_rx_space(net) = 0

\* C20: pump's read phase: every read but the last returned bytes; if the
\* last read returned bytes, encrypted_in_buffer is full; if it returned
\* 0 or -1, that read set errno, pump went on (to stop) when it set EAGAIN
\* and returned -1 when it set anything else.
C20_ReadStops ==
    last.op = "pump" =>
        LET io == sys.io
            R  == {i \in DOMAIN io : io[i].call = "read"}
        IN  \A m \in R :
              IF \E i \in R : i > m
              THEN io[m].ret > 0
              ELSE /\ io[m].ret > 0 => net_rx_space(net) = 0
                   /\ io[m].ret <= 0 =>
                        /\ io[m].errno # "unset"
                        /\ io[m].errno = "EAGAIN" => last.ret = 1
                        /\ io[m].errno # "EAGAIN" => last.ret = -1


\* C14: Memory Binding with a small encrypted_in_buffer, an engine that
\* makes progress and a lossless transport that is ready when poll says so:
\* main's cycle of tx or rx, would-block, query, pump and retry eventually
\* has the handshake done, the whole message accepted and the peer's answer
\* delivered.
C14_Completes ==
    <>(eng.st = "established" /\ drv.tx_len = 0 /\ drv.rx_p = RespLen)


\* C21: the order inside one pump call: every read from the real transport
\* and every write into encrypted_in_buffer comes before the first take from
\* encrypted_out_buffer and the first write to the real transport; and a call
\* in which a read failed with an errno other than EAGAIN returns -1 having
\* taken nothing from encrypted_out_buffer and written nothing.
C21_PumpOrder ==
    [][ last'.op = "pump" =>
          LET io  == sys'.io
              In  == {i \in DOMAIN io : io[i].call \in {"read", "write_net_rx"}}
              Out == {i \in DOMAIN io : io[i].call \in {"read_net_tx", "write"}}
          IN  /\ \A i \in In, j \in Out : i < j
              /\ (\E i \in In : /\ io[i].call = "read"
                                /\ io[i].ret = -1
                                /\ io[i].errno # "EAGAIN") =>
                    /\ Out = {}
                    /\ last'.ret = -1
                    /\ net'.out = net.out
                    /\ wire'.written = wire.written
      ]_vars

\* poll reported POLLIN and POLLOUT: the call read bytes into
\* encrypted_in_buffer and then wrote bytes from encrypted_out_buffer.
C21_Witness ==
    /\ last.op = "pump"
    /\ \E i, j \in DOMAIN sys.io :
          /\ sys.io[i].call = "write_net_rx" /\ sys.io[i].ret > 0
          /\ sys.io[j].call = "write" /\ sys.io[j].ret > 0


\* C22: the frame of pump: a pump call, whichever way it ends, leaves both
\* hints, the engine, what main has handed to tx and taken from rx (tx_p,
\* tx_len, rx_p, rx_len, the bytes accepted) and the connection's objects as
\* they were; the only calls it makes are read and write on the real
\* transport and read_net_tx and write_net_rx on the network side of the
\* pair; and it takes bytes from encrypted_out_buffer and adds bytes to
\* encrypted_in_buffer, never the other way.
C22_PumpFrame ==
    [][ last'.op = "pump" =>
          /\ conn' = conn
          /\ eng' = eng
          /\ h' = h
          /\ drv'.tx_p = drv.tx_p /\ drv'.tx_len = drv.tx_len
          /\ drv'.rx_p = drv.rx_p /\ drv'.rx_len = drv.rx_len
          /\ drv'.sent = drv.sent /\ drv'.res = drv.res
          /\ \A i \in DOMAIN sys'.io :
                sys'.io[i].call \in {"read", "write", "read_net_tx", "write_net_rx"}
          /\ \E k \in 0..Len(net.out) : net'.out = SubSeq(net.out, k + 1, Len(net.out))
          /\ \E k \in 0..Len(net'.in) : net.in = SubSeq(net'.in, 1, k)
          /\ net'.size = net.size
      ]_vars

\* A pump call that wrote to the real transport, made with a hint set and
\* part of the message already accepted.
C22_Witness ==
    /\ last.op = "pump"
    /\ conn.tx_need_rx
    /\ drv.tx_p > 0
    /\ drv.tx_len > 0
    /\ \E i \in DOMAIN sys.io : sys.io[i].call = "write" /\ sys.io[i].ret > 0


\* C23: encrypted_in_buffer never holds more than its capacity; every read
\* pump makes asks for at least one byte and at most the smaller of the room
\* encrypted_in_buffer has at that moment and the size of the scratch
\* buffer; and every write_net_rx stores all the bytes it is handed, so the
\* short write-through branch (l2 < l) is never taken.
C23_BoundedIn ==
    [][ /\ Len(net.in) <= net.size
        /\ Len(net'.in) <= net'.size
        /\ last'.op = "pump" =>
             \A i \in DOMAIN sys'.io :
                LET e == sys'.io[i]
                    room == net_rx_space(net) - stored(sys'.io, i - 1)
                IN  /\ e.call = "read" =>
                          /\ e.arg >= 1
                          /\ e.arg = Min(room, sizeof_buf)
                          /\ e.ret <= e.arg
                    /\ e.call = "write_net_rx" =>
                          /\ e.ret = e.arg
                          /\ e.arg <= room
      ]_vars

\* A pump call whose last read was asked for fewer bytes than the scratch
\* buffer holds, encrypted_in_buffer having less room than that, and which
\* filled encrypted_in_buffer.
C23_Witness ==
    /\ last.op = "pump"
    /\ net_rx_space(net) = 0
    /\ \E i \in DOMAIN sys.io :
          /\ sys.io[i].call = "read"
          /\ sys.io[i].arg < sizeof_buf
          /\ sys.io[i].ret = sys.io[i].arg


\* C24: Memory Binding, once the real transport has reached its end: main
\* does not stay in a retry loop for ever; it comes to fail (pump returned
\* other than 1, or rx returned -1), or tx or rx returns something other
\* than would-block.
C24_EndTerminates ==
    wire.eof ~> (\/ drv.at = "fail"
                 \/ (last.op \in {"tx", "rx"} /\ last.ret # -2))


\* C25: hint independence, demos 4 and 5, tx and rx called in any order: a
\* tx call leaves rx_need_tx alone and an rx call leaves tx_need_rx alone;
\* rx_need_tx after an rx call is decided by that call (it is what the same
\* engine result leaves on a connection no call was made on before);
\* tx_need_rx after a tx call is decided by that call and what tx_need_rx
\* was before it; and no call other than rx changes what get_conn_pending_rx
\* yields, no call other than tx what get_conn_pending_tx yields.
C25_HintIndependence ==
    [][ (demo \in {4, 5} /\ pc = "live" /\ pc' = "live") =>
          /\ last'.op = "tx" => conn'.rx_need_tx = conn.rx_need_tx
          /\ last'.op = "rx" => conn'.tx_need_rx = conn.tx_need_rx
          /\ last'.op = "rx" =>
                conn'.rx_need_tx = rx(demo, ZeroConn, last'.l, last'.rc).conn.rx_need_tx
          /\ last'.op = "tx" =>
                \A c \in [rx_need_tx : BOOLEAN, tx_need_rx : BOOLEAN] :
                   c.tx_need_rx = conn.tx_need_rx =>
                      tx(demo, c, last'.l, last'.rc).conn.tx_need_rx = conn'.tx_need_rx
          /\ last'.op # "rx" =>
                get_conn_pending_rx(demo, conn').ret = get_conn_pending_rx(demo, conn).ret
          /\ last'.op # "tx" =>
                get_conn_pending_tx(demo, conn').ret = get_conn_pending_tx(demo, conn).ret
      ]_vars


\* C26: pump waits for the real transport to be writable exactly when
\* encrypted_out_buffer has bytes pending, whether or not the caller asked
\* for POLLOUT; a pump call given POLLOUT and not POLLIN, with
\* encrypted_out_buffer empty, returns 1 without calling poll, read or write
\* and leaves the pair and the transport as they were.
C26_WritabilityIffPending ==
    [][ last'.op = "pump" =>
          /\ (sys'.polled /\ "POLLOUT" \in sys'.events) <=> net_tx_avail(net) > 0
          /\ ("POLLOUT" \in last'.ev /\ "POLLIN" \notin last'.ev
                 /\ net_tx_avail(net) = 0) =>
                /\ ~sys'.polled
                /\ sys'.io = <<>>
                /\ last'.ret = 1
                /\ UNCHANGED <<net, wire>>
      ]_vars

\* main called pump after a tx call that would block for a cause other than
\* WANT_READ, with nothing pending: pump returned 1 without waiting and main
\* is back at tx.
C26_Witness ==
    /\ demo = 5
    /\ last.op = "pump"
    /\ last.ev = {"POLLOUT", "POLLERR"}
    /\ net_tx_avail(net) = 0
    /\ ~sys.polled
    /\ last.ret = 1
    /\ drv.at = "tx"

====
